---- MODULE Spec2Model ----
(***************************************************************************)
(* Phosphor-trace oscilloscope simulator (test2.py, with test.py as the     *)
(* earlier variant of the same frame loop).                                 *)
(*                                                                          *)
(* Number representation.  The program computes with Python floats; the     *)
(* model computes with exact integers in fixed units:                       *)
(*   - a slider value is an integer count of 1/SliderDen(label);            *)
(*   - time (dt, accumulator, signal time, polling interval) is an integer  *)
(*     count of 1/TimeDen second;                                           *)
(*   - brightness is an integer count of 1e-9, each multiplication by   *)
(*     the decay factor rounding down;                                      *)
(*   - a waveform value is an integer count of 1/WaveDen, and a synthesized *)
(*     channel value an integer count of 1/ValDen;                          *)
(*   - math.sin is Bhaskara's rational approximation on whole degrees.      *)
(* Python's int() truncates toward zero and // rounds down; both are kept.  *)
(***************************************************************************)
EXTENDS Integers, Sequences, FiniteSets, TLC

(* ---------------- program constants (test2.py) ---------------- *)
SCREEN_WIDTH == 800
SCREEN_HEIGHT == 600
SLIDER_PANEL_WIDTH == 300
SPOTS_PER_FRAME == 10
SLIDER_WIDTH == 150
SLIDER_HANDLE_WIDTH == 10
WAVE_TYPE_MIN == 0
WAVE_TYPE_MAX == 4
SIZE_MIN == 2
SIZE_MAX == 20
POLL_RATE_MIN == 1
POLL_RATE_MAX == 1000
DEFAULT_SIZE == 20
DEFAULT_WAVE_TYPE == 0
DEFAULT_POLL_RATE == 60

(* WaveType enum values *)
SINE == 0
SQUARE == 1
SAWTOOTH == 2
TRIANGLE == 3

(* ---------------- units of the fixed-point representation ---------------- *)
\* INITIAL_BRIGHTNESS = 1.0, in brightness units of 1e-9
INITIAL_BRIGHTNESS == 1000000000
\* the literal 0.01 of Spot.draw and of the removal test, in brightness units
FloorB == INITIAL_BRIGHTNESS \div 100
\* units per second of every time quantity
TimeDen == 3000
\* units of one waveform value 1.0
WaveDen == 1000
\* units of one synthesized channel value 1.0 (amp * value + offset)
ValDen == 1500000
\* units of one full turn of normalized_t / (2 pi)
TurnDen == 4500000

(* ---------------- state of main() ---------------- *)
VARIABLES
    spots,                 \* list of Spot objects
    next_id,               \* number of Spot objects created so far
    mouse_mode,
    sliders,               \* label -> Slider.value
    active_slider,         \* a label or "None"
    dragging,              \* channel sliders whose .dragging is True
    rect_x,                \* rect.x of every slider
    polling_rate,
    polling_interval,
    time_since_last_poll,
    poll_positions,
    signal_time,           \* signal_gen.time
    current_pos,           \* a position, or "unbound" before the first assignment
    raised,                \* "none", or the exception that ended the program
    frame,                 \* what the last executed loop body did
    ticks,                 \* loop bodies executed so far, up to MaxTicks
    drags,                 \* slider-moving MOUSEMOTION events so far
    probe                  \* the last direct call of a pure function, if any

vars ==
    << spots, next_id, mouse_mode, sliders, active_slider, dragging, rect_x,
       polling_rate, polling_interval, time_since_last_poll, poll_positions,
       signal_time, current_pos, raised, frame, ticks, drags, probe >>

(* ---------------- integer helpers for Python arithmetic ---------------- *)
\* int(num / den) for den > 0: truncation toward zero
Trunc(num, den) ==
    IF num >= 0 THEN num \div den ELSE -((-num) \div den)

\* floor(a * p / q) for a >= 0, 0 <= p, q > 0, computed without overflow
MulDiv(a, p, q) ==
    (a \div q) * p + ((a % q) * p) \div q

\* int(h * num / den) for h >= 0, den > 0, computed without overflow
MulDivTrunc(h, num, den) ==
    IF num >= 0 THEN MulDiv(num, h, den) ELSE -MulDiv(-num, h, den)

Max2(a, b) ==
    IF a >= b THEN a ELSE b

Min2(a, b) ==
    IF a <= b THEN a ELSE b

(* ---------------- sliders ---------------- *)
XLabels == <<"X Wave", "X Freq", "X Amp", "X Offset", "X Phase">>
YLabels == <<"Y Wave", "Y Freq", "Y Amp", "Y Offset", "Y Phase">>
DotLabels == <<"Dot Size", "Decay Rate", "Polling Rate">>

ChannelLabels == {XLabels[i] : i \in 1..5} \cup {YLabels[i] : i \in 1..5}
Labels == ChannelLabels \cup {DotLabels[i] : i \in 1..3}

Kind(label) ==
    IF label \in {"X Wave", "Y Wave"} THEN "Wave"
    ELSE IF label \in {"X Freq", "Y Freq"} THEN "Freq"
    ELSE IF label \in {"X Amp", "Y Amp"} THEN "Amp"
    ELSE IF label \in {"X Offset", "Y Offset"} THEN "Offset"
    ELSE IF label \in {"X Phase", "Y Phase"} THEN "Phase"
    ELSE label

\* is_int argument of the Slider constructor calls
IsInt(label) ==
    Kind(label) \in {"Wave", "Dot Size", "Polling Rate"}

\* units per 1.0 of the slider's value
SliderDen(label) ==
    CASE Kind(label) = "Freq" -> 1500
      [] Kind(label) = "Amp" -> 1500
      [] Kind(label) = "Offset" -> 150
      [] Kind(label) = "Phase" -> 150
      [] Kind(label) = "Decay Rate" -> 15000
      [] OTHER -> 1

\* min_val of the Slider constructor calls, in slider units
SliderMin(label) ==
    CASE Kind(label) = "Wave" -> WAVE_TYPE_MIN
      [] Kind(label) = "Freq" -> 150
      [] Kind(label) = "Amp" -> 150
      [] Kind(label) = "Offset" -> -75
      [] Kind(label) = "Phase" -> 0
      [] Kind(label) = "Dot Size" -> SIZE_MIN
      [] Kind(label) = "Decay Rate" -> 12000
      [] Kind(label) = "Polling Rate" -> POLL_RATE_MIN

\* max_val of the Slider constructor calls, in slider units
SliderMax(label) ==
    CASE Kind(label) = "Wave" -> WAVE_TYPE_MAX
      [] Kind(label) = "Freq" -> 7500
      [] Kind(label) = "Amp" -> 750
      [] Kind(label) = "Offset" -> 75
      [] Kind(label) = "Phase" -> 150
      [] Kind(label) = "Dot Size" -> SIZE_MAX
      [] Kind(label) = "Decay Rate" -> 14850
      [] Kind(label) = "Polling Rate" -> POLL_RATE_MAX

\* PRESET_VALUES, which are also the initial_val arguments, in slider units
PRESET_VALUES(label) ==
    CASE Kind(label) = "Wave" -> DEFAULT_WAVE_TYPE
      [] Kind(label) = "Freq" -> 1500
      [] Kind(label) = "Amp" -> 450
      [] Kind(label) = "Offset" -> 0
      [] Kind(label) = "Phase" -> 0
      [] Kind(label) = "Dot Size" -> DEFAULT_SIZE
      [] Kind(label) = "Decay Rate" -> 14250
      [] Kind(label) = "Polling Rate" -> DEFAULT_POLL_RATE

\* Slider.get_value: rx is rect.x, and rect.width is SLIDER_WIDTH for every
\* slider
get_value(label, pos_x, rx) ==
    LET num == SliderMin(label) * SLIDER_WIDTH
               + (pos_x - rx) * (SliderMax(label) - SliderMin(label))
    IN  IF IsInt(label) THEN Trunc(num, SLIDER_WIDTH) ELSE num \div SLIDER_WIDTH

\* the MOUSEMOTION handlers taking event.pos[0] as it comes
ClampMouseXNone(ex, rx) ==
    ex

\* the clamp taken to rect.right, without the handle width
ClampMouseXFullWidth(ex, rx) ==
    Max2(rx, Min2(ex, rx + SLIDER_WIDTH))

\* the clamp of the MOUSEMOTION handlers: rect.left = rect.x = rx,
\* rect.right = rect.x + rect.width
ClampMouseX(ex, rx) ==
    Max2(rx, Min2(ex, rx + SLIDER_WIDTH - SLIDER_HANDLE_WIDTH))

(* ---------------- Spot ---------------- *)
\* Spot.__init__; id stands for the identity of the Python object
Spot(id, pos, radius, decay_rate) ==
    [id |-> id, pos |-> pos, initial_radius |-> radius,
     brightness |-> INITIAL_BRIGHTNESS, decay_rate |-> decay_rate, age |-> 0]

\* Spot.update multiplying by the decay slider's current value
updateFromSlider(s) ==
    [s EXCEPT !.brightness = MulDiv(@, sliders["Decay Rate"], SliderDen("Decay Rate")),
              !.age = @ + 1]

\* Spot.update fading by a fixed amount: brightness -= 1 - decay_rate
updateLinear(s) ==
    [s EXCEPT !.brightness = @ - MulDiv(INITIAL_BRIGHTNESS,
                                        SliderDen("Decay Rate") - s.decay_rate,
                                        SliderDen("Decay Rate")),
              !.age = @ + 1]

\* Spot.update
update(s) ==
    [s EXCEPT !.brightness = MulDiv(@, s.decay_rate, SliderDen("Decay Rate")),
              !.age = @ + 1]

\* Spot.draw without its first two lines
drawAlways(s, surface) ==
    Append(surface, [id |-> s.id, brightness |-> s.brightness])

\* Spot.draw: the surface is the sequence of circles blitted so far
draw(s, surface) ==
    IF s.brightness <= FloorB
    THEN surface
    ELSE Append(surface, [id |-> s.id, brightness |-> s.brightness])

(* ---------------- interpolate_points ---------------- *)
\* interpolate_points with range(steps) in place of range(1, steps + 1)
interpolate_pointsFromZero(p1, p2, steps) ==
    [i \in 1..steps |->
        << Trunc(p1[1] * steps + (p2[1] - p1[1]) * (i - 1), steps),
           Trunc(p1[2] * steps + (p2[2] - p1[2]) * (i - 1), steps) >>]

interpolate_points(p1, p2, steps) ==
    [i \in 1..steps |->
        << Trunc(p1[1] * steps + (p2[1] - p1[1]) * i, steps),
           Trunc(p1[2] * steps + (p2[2] - p1[2]) * i, steps) >>]

(* ---------------- SignalGenerator ---------------- *)
\* math.sin of a whole number of degrees d in 0..359, in waveform units
\* (Bhaskara: sin(d) ~ 4 d (180 - d) / (40500 - d (180 - d)) for d in 0..180)
SinDeg(d) ==
    LET h == IF d < 180 THEN d ELSE d - 180
        q == h * (180 - h)
        v == (4 * q * WaveDen) \div (40500 - q)
    IN  IF d < 180 THEN v ELSE -v

\* normalized_t % (2 pi) / (2 pi) in turn units: freq * (t + phase / freq)
\* taken modulo one turn; freq in 1/1500 Hz, t in 1/TimeDen s, phase in 1/150
TurnFrac(freq, t, phase) ==
    (freq * t + phase * (TurnDen \div SliderDen("X Phase"))) % TurnDen

\* the un-scaled waveform value of generate_wave, in waveform units
wave_value(wave_type, freq, t, phase) ==
    LET m == TurnFrac(freq, t, phase)
        s == SinDeg((m * 360) \div TurnDen)
    IN  CASE wave_type = SINE -> s
          [] wave_type = SQUARE -> IF s >= 0 THEN WaveDen ELSE -WaveDen
          [] wave_type = SAWTOOTH -> (2 * (m - TurnDen)) \div (TurnDen \div WaveDen)
          [] wave_type = TRIANGLE ->
                LET inner == 2 * (m - TurnDen) - TurnDen
                    a == IF inner >= 0 THEN inner ELSE -inner
                IN  (2 * a) \div (TurnDen \div WaveDen)

\* SignalGenerator.generate_wave: amp * value + offset, in channel-value units
generate_wave(wave_type, freq, amp, offset, t, phase) ==
    amp * wave_value(wave_type, freq, t, phase)
    + offset * (ValDen \div SliderDen("X Offset"))

\* one axis of get_xy_position without the max(0, min(extent, .)) of its
\* return statement
to_pixelUnclamped(extent, v) ==
    extent \div 2 + MulDivTrunc(extent \div 2, v, ValDen)

\* one axis of get_xy_position: extent // 2 + int((extent // 2) * v), clamped
to_pixel(extent, v) ==
    Max2(0, Min2(extent, extent \div 2 + MulDivTrunc(extent \div 2, v, ValDen)))

\* ChannelControls.get_wave_type: WaveType(int(value)) raises ValueError
\* for an integer that is not a member of the enum
WaveTypeOk(ctl) ==
    ctl[1] \in {SINE, SQUARE, SAWTOOTH, TRIANGLE}

\* SignalGenerator.get_xy_position; xc and yc are the five slider values of
\* the X and the Y ChannelControls in creation order
get_xy_position(xc, yc, canvas_width, screen_height, time_offset) ==
    << to_pixel(canvas_width,
                generate_wave(xc[1], xc[2], xc[3], xc[4], time_offset, xc[5])),
       to_pixel(screen_height,
                generate_wave(yc[1], yc[2], yc[3], yc[4], time_offset, yc[5])) >>

(* ---------------- bounds of the model ---------------- *)
\* ticks of a run whose inputs are free and between which events arrive;
\* after them the program is left alone in signal mode with a stalled clock
MaxTicks == 3
\* most MOUSEMOTION events that move a slider in one run
MaxDrags == 1

\* values of clock.tick(FPS) / 1000.0 offered to a free tick, in time units:
\* 6 ms (one frame at 165 FPS) and 50 ms (a slow frame)
DtSet == {18, 150}
\* values of pygame.mouse.get_pos() offered to a tick
Pointers == {<<100, 100>>, <<103, 117>>}
\* event.pos[0] - rect.x of the MOUSEMOTION events offered
MotionOffsets == {-5, 3, 38}
\* slider handles a MOUSEBUTTONDOWN may land on
ClickTargets == {"Decay Rate", "Polling Rate", "X Wave"}

NoFrame ==
    [kind |-> "none", mode |-> TRUE, dt |-> 0, pointer |-> <<0, 0>>,
     interval0 |-> 0,
     polled |-> <<>>, ingested |-> 0, removed |-> <<>>,
     surface |-> <<>>, core |-> "none"]

Init ==
    /\ spots = <<>>
    /\ next_id = 0
    /\ mouse_mode = TRUE
    /\ sliders = [l \in Labels |-> PRESET_VALUES(l)]
    /\ active_slider = "None"
    /\ dragging = {}
    /\ rect_x = 0
    /\ polling_rate = PRESET_VALUES("Polling Rate")
    /\ polling_interval = TimeDen \div PRESET_VALUES("Polling Rate")
    /\ time_since_last_poll = 0
    /\ poll_positions = <<>>
    /\ signal_time = 0
    /\ current_pos = "unbound"
    /\ raised = "none"
    /\ frame = NoFrame
    /\ ticks = 0
    /\ drags = 0
    /\ probe = [fn |-> "none"]

(* ---------------- the event loop (one action per event) ---------------- *)
\* KEYDOWN with key K_SPACE
KeySpace ==
    /\ raised = "none"
    /\ mouse_mode' = ~mouse_mode
    /\ UNCHANGED << spots, next_id, sliders, active_slider, dragging, rect_x,
                    polling_rate, polling_interval, time_since_last_poll,
                    poll_positions, signal_time, current_pos, raised, frame,
                    ticks, drags, probe >>

\* MOUSEBUTTONDOWN on the handle of slider s: main() makes it the active
\* slider, and ChannelControls.handle_event sets .dragging of a channel slider
MouseButtonDown(s) ==
    /\ raised = "none"
    /\ active_slider' = s
    /\ dragging' = IF s \in ChannelLabels THEN dragging \cup {s} ELSE dragging
    /\ UNCHANGED << spots, next_id, mouse_mode, sliders, rect_x,
                    polling_rate, polling_interval, time_since_last_poll,
                    poll_positions, signal_time, current_pos, raised, frame,
                    ticks, drags, probe >>

\* MOUSEBUTTONUP
MouseButtonUp ==
    /\ raised = "none"
    /\ active_slider' = "None"
    /\ dragging' = {}
    /\ UNCHANGED << spots, next_id, mouse_mode, sliders, rect_x,
                    polling_rate, polling_interval, time_since_last_poll,
                    poll_positions, signal_time, current_pos, raised, frame,
                    ticks, drags, probe >>

\* sliders a MOUSEMOTION event moves
Moved ==
    (IF active_slider = "None" THEN {} ELSE {active_slider}) \cup dragging

\* MOUSEMOTION at event.pos[0] = ex
MouseMotion(ex) ==
    /\ raised = "none"
    /\ Moved # {}
    /\ LET mouse_x == ClampMouseX(ex, rect_x)
           moved == [l \in Labels |->
                        IF l \in Moved THEN get_value(l, mouse_x, rect_x)
                        ELSE sliders[l]]
       IN  sliders' = moved
    /\ drags' = Min2(drags + 1, MaxDrags)
    /\ UNCHANGED << spots, next_id, mouse_mode, active_slider, dragging, rect_x,
                    polling_rate, polling_interval, time_since_last_poll,
                    poll_positions, signal_time, current_pos, raised, frame,
                    ticks, probe >>

\* a MOUSEMOTION at ex leaves the polling-rate slider at a rate whose
\* interval 1 / rate is a whole number of time units
ExactInterval(ex) ==
    "Polling Rate" \in Moved =>
        LET rate == get_value("Polling Rate", ClampMouseX(ex, rect_x), rect_x)
        IN  rate > 0 /\ TimeDen % rate = 0

\* MOUSEBUTTONDOWN inside the Reset button: reset_sliders()
ResetClick ==
    /\ raised = "none"
    /\ sliders' = [l \in Labels |-> PRESET_VALUES(l)]
    /\ UNCHANGED << spots, next_id, mouse_mode, active_slider, dragging, rect_x,
                    polling_rate, polling_interval, time_since_last_poll,
                    poll_positions, signal_time, current_pos, raised, frame,
                    ticks, drags, probe >>

(* ---------------- the loop body after the events ---------------- *)
\* canvas_width and screen_height of screen.get_size(); the window keeps
\* its initial size
CanvasWidth == SCREEN_WIDTH - SLIDER_PANEL_WIDTH

\* the five slider values of a ChannelControls, in creation order
Controls(labels, sl) ==
    [i \in 1..5 |-> sl[labels[i]]]

\* spots.append(Spot(pos, size_slider.value, decay_slider.value)) for every
\* pos of positions, the first new object getting identity first_id
Ingest(positions, first_id, sl) ==
    [i \in 1..Len(positions) |->
        Spot(first_id + i - 1, positions[i], sl["Dot Size"], sl["Decay Rate"])]

\* mouse branch that skips a pointer position equal to the newest mark's,
\* as test.py does
MousePositionsDedup(spots_, cp) ==
    IF Len(spots_) = 0 THEN <<cp>>
    ELSE IF cp # spots_[Len(spots_)].pos
         THEN interpolate_points(spots_[Len(spots_)].pos, cp, SPOTS_PER_FRAME)
              \o <<cp>>
         ELSE <<>>

\* mouse branch: the positions appended to spots for pointer position cp
MousePositions(spots_, cp) ==
    (IF Len(spots_) > 0 /\ cp # spots_[Len(spots_)].pos
     THEN interpolate_points(spots_[Len(spots_)].pos, cp, SPOTS_PER_FRAME)
     ELSE <<>>) \o <<cp>>

\* the polling loop with `if` in place of `while`
PollLoopOnce(acc, t, out, interval, sl) ==
    IF acc >= interval
    THEN [acc |-> acc - interval, time |-> t + interval,
          polled |-> Append(out, [pos |-> get_xy_position(Controls(XLabels, sl),
                                                          Controls(YLabels, sl),
                                                          CanvasWidth, SCREEN_HEIGHT,
                                                          t + interval),
                                  t |-> t + interval])]
    ELSE [acc |-> acc, time |-> t, polled |-> out]

\* the polling loop with the accumulator set to zero by a firing, in place
\* of `time_since_last_poll -= polling_interval`
RECURSIVE PollLoopReset(_, _, _, _, _)
PollLoopReset(acc, t, out, interval, sl) ==
    IF acc >= interval
    THEN PollLoopReset(0, t + interval,
                       Append(out, [pos |-> get_xy_position(Controls(XLabels, sl),
                                                            Controls(YLabels, sl),
                                                            CanvasWidth, SCREEN_HEIGHT,
                                                            t + interval),
                                    t |-> t + interval]),
                       interval, sl)
    ELSE [acc |-> acc, time |-> t, polled |-> out]

\* signal branch: while time_since_last_poll >= polling_interval
RECURSIVE PollLoop(_, _, _, _, _)
PollLoop(acc, t, out, interval, sl) ==
    IF acc >= interval
    THEN PollLoop(acc - interval, t + interval,
                  Append(out, [pos |-> get_xy_position(Controls(XLabels, sl),
                                                       Controls(YLabels, sl),
                                                       CanvasWidth, SCREEN_HEIGHT,
                                                       t + interval),
                               t |-> t + interval]),
                  interval, sl)
    ELSE [acc |-> acc, time |-> t, polled |-> out]

\* the pairs of poll positions walked from the newest to the oldest
SignalPositionsReversed(pp) ==
    IF Len(pp) >= 2
    THEN [j \in 1..((Len(pp) - 1) * SPOTS_PER_FRAME) |->
            LET i == (Len(pp) - 1) - ((j - 1) \div SPOTS_PER_FRAME)
                k == ((j - 1) % SPOTS_PER_FRAME) + 1
            IN  interpolate_points(pp[i], pp[i + 1], SPOTS_PER_FRAME)[k]]
    ELSE <<>>

\* signal branch: the positions appended to spots for the list pp of
\* poll positions (nothing when pp has fewer than 2 entries)
SignalPositions(pp) ==
    IF Len(pp) >= 2
    THEN [j \in 1..((Len(pp) - 1) * SPOTS_PER_FRAME) |->
            LET i == ((j - 1) \div SPOTS_PER_FRAME) + 1
                k == ((j - 1) % SPOTS_PER_FRAME) + 1
            IN  interpolate_points(pp[i], pp[i + 1], SPOTS_PER_FRAME)[k]]
    ELSE <<>>

\* the signal branch without its line 338: every poll position is kept
KeepAll(pp) ==
    pp

\* signal branch: poll_positions = [poll_positions[-1]] when it has 2 or more
KeepLast(pp) ==
    IF Len(pp) >= 2 THEN <<pp[Len(pp)]>> ELSE pp

\* for spot in spots[:]: update, draw, remove when brightness <= 0.01.
\* objs is the copy spots[:] (the objects, mutated in place), live the list
\* spots as references into objs; spots.remove(spot) deletes the first
\* reference to an equal object, and Spot objects are equal only to themselves
\* the removal test with the literal 0.001
ExpiredLate(spot) ==
    spot.brightness <= FloorB \div 10

\* the removal test of the aging loop: spot.brightness <= 0.01
Expired(spot) ==
    spot.brightness <= FloorB

\* the body of the aging loop for the i-th object of the copy: update, draw,
\* and spots.remove(spot) when its brightness is at or below the floor
AgingStep(st, i) ==
    LET spot == update(st.objs[i])
    IN  [objs |-> [st.objs EXCEPT ![i] = spot],
         live |-> IF Expired(spot)
                  THEN SelectSeq(st.live, LAMBDA r : r # i)
                  ELSE st.live,
         surface |-> draw(spot, st.surface),
         removed |-> IF Expired(spot) THEN Append(st.removed, spot)
                     ELSE st.removed]

\* `for spot in spots:` in place of `for spot in spots[:]`: the iterator
\* walks the list that spots.remove shortens under it
RECURSIVE AgingLoopInPlace(_, _)
AgingLoopInPlace(st, i) ==
    IF i > Len(st.live)
    THEN [spots |-> [k \in 1..Len(st.live) |-> st.objs[st.live[k]]],
          surface |-> st.surface,
          removed |-> st.removed]
    ELSE AgingLoopInPlace(AgingStep(st, st.live[i]), i + 1)

\* `for spot in spots[:]`: the loop state after i - 1 objects is a value
\* (st ranges over the one-element set of it), as the list is in the code
RECURSIVE AgingLoop(_, _)
AgingLoop(st_, i) ==
    CHOOSE r \in
        { IF i > Len(st.objs)
          THEN [spots |-> [k \in 1..Len(st.live) |-> st.objs[st.live[k]]],
                surface |-> st.surface,
                removed |-> st.removed]
          ELSE AgingLoop(AgingStep(st, i), i + 1) : st \in {st_} } : TRUE

\* the frame loop without its aging pass
AgingPassNone(spots_) ==
    [spots |-> spots_, surface |-> <<>>, removed |-> <<>>]

AgingPass(spots_) ==
    AgingLoop([objs |-> spots_, live |-> [k \in 1..Len(spots_) |-> k],
               surface |-> <<>>, removed |-> <<>>], 1)

\* the interval left as the previous iteration computed it
PollingIntervalStale(rate, prev) ==
    prev

\* polling_interval = 1.0 / polling_rate, recomputed from the rate just read
\* from the slider; prev is the interval the previous iteration left behind
PollingInterval(rate, prev) ==
    TimeDen \div rate

\* the loop body with `time_since_last_poll += dt` and the polling loop moved
\* out of the else branch, so that they run in mouse mode as well
TickAccumulating(dt, pointer) ==
    /\ raised = "none"
    /\ ~mouse_mode => pointer = <<0, 0>>
    /\ ticks' = Min2(ticks + 1, MaxTicks)
    /\ UNCHANGED << mouse_mode, sliders, active_slider, dragging, drags, probe >>
    /\ polling_rate' = sliders["Polling Rate"]
    /\ IF sliders["Polling Rate"] = 0
       THEN /\ raised' = "ZeroDivisionError"
            /\ UNCHANGED << spots, next_id, rect_x, polling_interval,
                            time_since_last_poll, poll_positions, signal_time,
                            current_pos, frame >>
       ELSE
       LET interval == PollingInterval(sliders["Polling Rate"], polling_interval)
           loop == PollLoop(time_since_last_poll + dt, signal_time, <<>>,
                            interval, sliders)
           pp == poll_positions \o [j \in 1..Len(loop.polled) |-> loop.polled[j].pos]
           positions == IF mouse_mode THEN MousePositions(spots, pointer)
                        ELSE SignalPositions(pp)
           ingested == Ingest(positions, next_id + 1, sliders)
           cp == IF mouse_mode THEN pointer ELSE current_pos
       IN  /\ polling_interval' = interval
           /\ IF ~mouse_mode /\ loop.polled # <<>>
                 /\ ~(WaveTypeOk(Controls(XLabels, sliders))
                      /\ WaveTypeOk(Controls(YLabels, sliders)))
              THEN /\ raised' = "ValueError"
                   /\ UNCHANGED << spots, next_id, rect_x, time_since_last_poll,
                                   poll_positions, signal_time, current_pos, frame >>
              ELSE \E pass \in {AgingPass(spots \o ingested)} :
                   /\ time_since_last_poll' = loop.acc
                   /\ signal_time' = loop.time
                   /\ poll_positions' = KeepLast(pp)
                   /\ next_id' = next_id + Len(ingested)
                   /\ spots' = pass.spots
                   /\ current_pos' = cp
                   /\ raised' = IF cp = "unbound" THEN "UnboundLocalError"
                                ELSE "none"
                   /\ rect_x' = IF cp = "unbound" THEN rect_x
                                ELSE CanvasWidth + 20
                   /\ frame' = [kind |-> "tick", mode |-> mouse_mode, dt |-> dt,
                                pointer |-> pointer,
                                interval0 |-> polling_interval,
                                polled |-> loop.polled,
                                ingested |-> Len(ingested),
                                removed |-> pass.removed, surface |-> pass.surface,
                                core |-> IF cp = "unbound" THEN "none" ELSE cp]

\* one iteration of `while running` after its events: lines 309-358
Tick(dt, pointer) ==
    /\ raised = "none"
    /\ ~mouse_mode => pointer = <<0, 0>>
    /\ ticks' = Min2(ticks + 1, MaxTicks)
    /\ UNCHANGED << mouse_mode, sliders, active_slider, dragging, drags, probe >>
    /\ polling_rate' = sliders["Polling Rate"]
    /\ IF sliders["Polling Rate"] = 0
       THEN /\ raised' = "ZeroDivisionError"
            /\ UNCHANGED << spots, next_id, rect_x, polling_interval,
                            time_since_last_poll, poll_positions, signal_time,
                            current_pos, frame >>
       ELSE
       LET interval == PollingInterval(sliders["Polling Rate"], polling_interval)
           loop == IF mouse_mode
                   THEN [acc |-> time_since_last_poll, time |-> signal_time,
                         polled |-> <<>>]
                   ELSE PollLoop(time_since_last_poll + dt, signal_time, <<>>,
                                 interval, sliders)
           pp == poll_positions \o [j \in 1..Len(loop.polled) |-> loop.polled[j].pos]
           positions == IF mouse_mode THEN MousePositions(spots, pointer)
                        ELSE SignalPositions(pp)
           ingested == Ingest(positions, next_id + 1, sliders)
           cp == IF mouse_mode THEN pointer ELSE current_pos
       IN  /\ polling_interval' = interval
           /\ IF ~mouse_mode /\ loop.polled # <<>>
                 /\ ~(WaveTypeOk(Controls(XLabels, sliders))
                      /\ WaveTypeOk(Controls(YLabels, sliders)))
              THEN /\ raised' = "ValueError"
                   /\ UNCHANGED << spots, next_id, rect_x, time_since_last_poll,
                                   poll_positions, signal_time, current_pos, frame >>
              ELSE \E pass \in {AgingPass(spots \o ingested)} :
                   /\ time_since_last_poll' = loop.acc
                   /\ signal_time' = loop.time
                   /\ poll_positions' = IF mouse_mode THEN poll_positions
                                        ELSE KeepLast(pp)
                   /\ next_id' = next_id + Len(ingested)
                   /\ spots' = pass.spots
                   /\ current_pos' = cp
                   /\ raised' = IF cp = "unbound" THEN "UnboundLocalError"
                                ELSE "none"
                   /\ rect_x' = IF cp = "unbound" THEN rect_x
                                ELSE CanvasWidth + 20
                   /\ frame' = [kind |-> "tick", mode |-> mouse_mode, dt |-> dt,
                                pointer |-> pointer,
                                interval0 |-> polling_interval,
                                polled |-> loop.polled,
                                ingested |-> Len(ingested),
                                removed |-> pass.removed, surface |-> pass.surface,
                                core |-> IF cp = "unbound" THEN "none" ELSE cp]

(* ---------------- the frame driver under free inputs ---------------- *)
\* events and ticks in any order, for MaxTicks ticks
Next ==
    \/ ticks < MaxTicks /\ KeySpace
    \/ ticks < MaxTicks /\ \E s \in ClickTargets : MouseButtonDown(s)
    \/ ticks < MaxTicks /\ MouseButtonUp
    \/ ticks < MaxTicks /\ drags < MaxDrags
          /\ \E off \in MotionOffsets :
                ExactInterval(rect_x + off) /\ MouseMotion(rect_x + off)
    \/ ticks < MaxTicks /\ ResetClick
    \/ ticks < MaxTicks
          /\ \E dt \in DtSet : \E pointer \in Pointers \cup {<<0, 0>>} :
                Tick(dt, pointer)

Spec ==
    Init /\ [][Next]_vars

(* ---------------- the sliders under every drag ---------------- *)
\* event.pos[0] - rect.x of the MOUSEMOTION events offered: left of the
\* slider's rect, at its two ends, inside it, and right of it
DragOffsets == {-20, -1, 0, 1, 2, 75, 139, 140, 141, 170}
\* slider handles a MOUSEBUTTONDOWN may land on
DragTargets == {"Polling Rate", "X Wave"}

\* the sliders dragged to any pointer position, released and reset in any
\* order, between ticks in mouse mode with the pointer at rest; no poll is
\* scheduled, so polling_interval holds 1 / rate cut to the time unit
NextSliders ==
    \/ \E s \in DragTargets : MouseButtonDown(s)
    \/ MouseButtonUp
    \/ \E off \in DragOffsets : MouseMotion(rect_x + off)
    \/ ResetClick
    \/ ticks < MaxTicks /\ Tick(18, <<100, 100>>)

SpecSliders ==
    Init /\ [][NextSliders]_vars

(* ---------------- the wave-kind sliders under drags ---------------- *)
\* event.pos[0] - rect.x of the MOUSEMOTION events offered to the wave
\* sliders: left of, inside and right of the slider
WaveOffsets == {-20, 0, 37, 38, 75, 112, 113, 140, 149, 150, 170}
\* slider handles a MOUSEBUTTONDOWN may land on
WaveTargets == {"X Wave", "Y Wave"}
\* values of clock.tick(FPS) / 1000.0 offered to a tick, in time units
WaveDts == {150}

\* presses, releases, drags of the wave-kind sliders, Reset presses, mode
\* switches and ticks in any order
NextWave ==
    \/ ticks < MaxTicks /\ KeySpace
    \/ \E s \in WaveTargets : MouseButtonDown(s)
    \/ MouseButtonUp
    \/ \E off \in WaveOffsets : MouseMotion(rect_x + off)
    \/ ResetClick
    \/ ticks < MaxTicks
          /\ \E dt \in WaveDts : \E pointer \in {<<100, 100>>, <<0, 0>>} :
                Tick(dt, pointer)

SpecWave ==
    Init /\ [][NextWave]_vars

(* ---------------- the trace store over a whole decay ---------------- *)
\* ticks with free inputs before the program is left alone
StoreTicks == 3
\* event.pos[0] - rect.x of the MOUSEMOTION events offered to the decay slider
StoreOffsets == {-5, 38}

\* marks created in one run that ends in mouse mode
MaxMarks == 45

\* a few free ticks, in which the decay slider may be dragged or reset and
\* the mode switched; then the program runs on: in signal mode with a stalled
\* clock (dt = 0: nothing is polled, nothing is ingested) until every mark has
\* gone, in mouse mode with the pointer at rest (one mark ingested per tick)
\* until MaxMarks marks have been created
NextStore ==
    \/ ticks < StoreTicks /\ KeySpace
    \/ ticks < StoreTicks /\ MouseButtonDown("Decay Rate")
    \/ ticks < StoreTicks /\ drags < MaxDrags
          /\ \E off \in StoreOffsets :
                ExactInterval(rect_x + off) /\ MouseMotion(rect_x + off)
    \/ ticks < StoreTicks /\ ResetClick
    \/ ticks < StoreTicks
          /\ \E dt \in DtSet : \E pointer \in Pointers \cup {<<0, 0>>} :
                Tick(dt, pointer)
    \/ ticks >= StoreTicks /\ ~mouse_mode /\ Tick(0, <<0, 0>>)
    \/ ticks >= StoreTicks /\ mouse_mode /\ next_id < MaxMarks
          /\ Tick(0, current_pos)

SpecStore ==
    Init /\ [][NextStore]_vars

\* a tick of the program left alone in signal mode
IdleTick ==
    ticks >= StoreTicks /\ ~mouse_mode /\ Tick(0, <<0, 0>>)

\* the trace store with the frame loop running on: `while running` executes
\* its body again and again, so a tick that can change the state is taken
SpecLive ==
    Init /\ [][NextStore]_vars /\ WF_vars(IdleTick)

(* ---------------- the pure functions called directly ---------------- *)
\* largest small step count offered to interpolate_points
MaxSteps == 3
\* coordinates of the points offered to interpolate_points
PtCoords == {-7, 0, 3, 10}
\* frequencies (1/1500 Hz), amplitudes (1/1500), offsets (1/150), phases
\* (1/150) and times (1/TimeDen s) offered to generate_wave
FnFreqs == {150, 750, 1500}
FnAmps == {150, 450, 600}
FnOffsets == {-75, 0, 75}
FnPhases == {0, 50, 150}
FnTimes == {0, 17, 750, 1500, 2250}
\* slider values of a ChannelControls offered to get_xy_position
FnControls ==
    { <<SINE, 750, 600, 0, 0>>, <<SQUARE, 1500, 450, 75, 50>>,
      <<SAWTOOTH, 1500, 750, -75, 0>>, <<TRIANGLE, 1500, 450, 0, 0>> }
\* canvas widths and heights offered to get_xy_position
FnWidths == {0, 1, 500, 800}
FnHeights == {0, 600}

UnchangedMain ==
    UNCHANGED << spots, next_id, mouse_mode, sliders, active_slider, dragging,
                 rect_x, polling_rate, polling_interval, time_since_last_poll,
                 poll_positions, signal_time, current_pos, raised, frame,
                 ticks, drags >>

CallInterpolate(p1, p2, steps) ==
    /\ probe.fn = "none"
    /\ probe' = [fn |-> "interpolate_points", p1 |-> p1, p2 |-> p2,
                 steps |-> steps, result |-> interpolate_points(p1, p2, steps)]
    /\ UnchangedMain

CallGenerateWave(wave_type, freq, amp, offset, t, phase) ==
    /\ probe.fn = "none"
    /\ probe' = [fn |-> "generate_wave", wave_type |-> wave_type, freq |-> freq,
                 amp |-> amp, offset |-> offset, t |-> t, phase |-> phase,
                 result |-> generate_wave(wave_type, freq, amp, offset, t, phase)]
    /\ UnchangedMain

CallGetXY(xc, yc, w, h, t) ==
    /\ probe.fn = "none"
    /\ probe' = [fn |-> "get_xy_position", w |-> w, h |-> h, t |-> t,
                 vx |-> generate_wave(xc[1], xc[2], xc[3], xc[4], t, xc[5]),
                 vy |-> generate_wave(yc[1], yc[2], yc[3], yc[4], t, yc[5]),
                 result |-> get_xy_position(xc, yc, w, h, t)]
    /\ UnchangedMain

\* one call per run, made on the freshly constructed program
NextFn ==
    \/ \E p1, p2 \in PtCoords \X PtCoords :
          \E steps \in (1..MaxSteps) \cup {SPOTS_PER_FRAME} :
              CallInterpolate(p1, p2, steps)
    \/ \E wave_type \in {SINE, SQUARE, SAWTOOTH, TRIANGLE} :
          \E freq \in FnFreqs, amp \in FnAmps, offset \in FnOffsets :
              \E t \in FnTimes, phase \in FnPhases :
                  CallGenerateWave(wave_type, freq, amp, offset, t, phase)
    \/ \E xc, yc \in FnControls :
          \E w \in FnWidths, h \in FnHeights, t \in FnTimes :
              CallGetXY(xc, yc, w, h, t)

SpecFn ==
    Init /\ [][NextFn]_vars

(* ---------------- test.py: the earlier variant of the frame loop ---------------- *)
\* test.py shares Spot and the aging loop with test2.py; its two sliders stay
\* where they were built, it has no poll scheduler and no interpolation, and
\* it skips a position equal to the newest mark's.
\* constants of test.py (SLIDER_WIDTH, SLIDER_HANDLE_WIDTH and the decay
\* slider's initial value differ from test2.py's)
SLIDER_WIDTH_v1 == 200
SLIDER_HANDLE_WIDTH_v1 == 15
SLIDER_X == 50
FPS == 165
\* INITIAL_SIZE in 1/100 (the size slider of test.py holds a float)
INITIAL_SIZE == 1000
\* INITIAL_DECAY = 0.9 in decay-slider units (1/15000)
INITIAL_DECAY == 13500

Labels_v1 == {"Size", "Decay"}

\* min_val and max_val of the two Slider constructor calls of test.py
SliderMin_v1(label) ==
    IF label = "Size" THEN SIZE_MIN * 100 ELSE SliderMin("Decay Rate")

SliderMax_v1(label) ==
    IF label = "Size" THEN SIZE_MAX * 100 ELSE SliderMax("Decay Rate")

\* Slider.get_value of test.py, which clamps the value to [min_val, max_val]
get_value_v1(label, pos_x) ==
    LET lo == SliderMin_v1(label)
        hi == SliderMax_v1(label)
    IN  Max2(lo, Min2(hi, lo + ((pos_x - SLIDER_X) * (hi - lo)) \div SLIDER_WIDTH_v1))

\* SignalGenerator.get_xy_position of test.py after n calls (time = n / FPS):
\* x follows sin(2 pi 0.5 t), y follows cos(2 pi 1.0 t), both over 0.4 of the
\* screen; the angles are cut to whole degrees
get_xy_position_v1(n) ==
    LET ax == ((180 * n) \div FPS) % 360
        ay == (((360 * n) \div FPS) + 90) % 360
        x == SCREEN_WIDTH \div 2
             + Trunc(((SCREEN_WIDTH * 4) \div 10) * SinDeg(ax), WaveDen)
        y == SCREEN_HEIGHT \div 2
             + Trunc(((SCREEN_HEIGHT * 4) \div 10) * SinDeg(ay), WaveDen)
    IN  << Max2(0, Min2(SCREEN_WIDTH, x)), Max2(0, Min2(SCREEN_HEIGHT, y)) >>

\* state of test.py's main() before its loop
Init_v1 ==
    /\ spots = <<>>
    /\ next_id = 0
    /\ mouse_mode = TRUE
    /\ sliders = [l \in Labels_v1 |->
                    IF l = "Size" THEN INITIAL_SIZE ELSE INITIAL_DECAY]
    /\ active_slider = "None"
    /\ dragging = {}
    /\ rect_x = SLIDER_X
    /\ polling_rate = 0
    /\ polling_interval = 0
    /\ time_since_last_poll = 0
    /\ poll_positions = <<>>
    /\ signal_time = 0
    /\ current_pos = "unbound"
    /\ raised = "none"
    /\ frame = NoFrame
    /\ ticks = 0
    /\ drags = 0
    /\ probe = [fn |-> "none"]

\* KEYDOWN with key K_SPACE
KeySpace_v1 ==
    /\ mouse_mode' = ~mouse_mode
    /\ UNCHANGED << spots, next_id, sliders, active_slider, dragging, rect_x,
                    polling_rate, polling_interval, time_since_last_poll,
                    poll_positions, signal_time, current_pos, raised, frame,
                    ticks, drags, probe >>

\* MOUSEBUTTONDOWN: on a slider handle it makes that slider active, anywhere
\* else it switches the mode
MouseButtonDown_v1(target) ==
    /\ IF target \in Labels_v1
       THEN active_slider' = target /\ UNCHANGED mouse_mode
       ELSE mouse_mode' = ~mouse_mode /\ UNCHANGED active_slider
    /\ UNCHANGED << spots, next_id, sliders, dragging, rect_x,
                    polling_rate, polling_interval, time_since_last_poll,
                    poll_positions, signal_time, current_pos, raised, frame,
                    ticks, drags, probe >>

\* MOUSEBUTTONUP
MouseButtonUp_v1 ==
    /\ active_slider' = "None"
    /\ UNCHANGED << spots, next_id, mouse_mode, sliders, dragging, rect_x,
                    polling_rate, polling_interval, time_since_last_poll,
                    poll_positions, signal_time, current_pos, raised, frame,
                    ticks, drags, probe >>

\* MOUSEMOTION at event.pos[0] = ex while a slider is active
MouseMotion_v1(ex) ==
    /\ active_slider # "None"
    /\ LET mouse_x == Max2(SLIDER_X,
                           Min2(ex, SLIDER_X + SLIDER_WIDTH_v1 - SLIDER_HANDLE_WIDTH_v1))
       IN  sliders' = [sliders EXCEPT ![active_slider] =
                          get_value_v1(active_slider, mouse_x)]
    /\ drags' = Min2(drags + 1, MaxDrags)
    /\ UNCHANGED << spots, next_id, mouse_mode, active_slider, dragging, rect_x,
                    polling_rate, polling_interval, time_since_last_poll,
                    poll_positions, signal_time, current_pos, raised, frame,
                    ticks, probe >>

\* the store after the aging loop has run before the new mark is appended
LoopBodyAgeFirst_v1(spots_, cp, id, sl) ==
    LET pass == AgingPass(spots_)
        add == IF Len(spots_) = 0 \/ cp # spots_[Len(spots_)].pos
               THEN << Spot(id, cp, sl["Size"], sl["Decay"]) >>
               ELSE <<>>
    IN  [spots |-> pass.spots \o add, surface |-> pass.surface,
         removed |-> pass.removed, ingested |-> Len(add)]

\* lines 181-190 of test.py: append a mark for the current position unless
\* it equals the newest mark's, then update, draw and evict every mark
LoopBody_v1(spots_, cp, id, sl) ==
    LET add == IF Len(spots_) = 0 \/ cp # spots_[Len(spots_)].pos
               THEN << Spot(id, cp, sl["Size"], sl["Decay"]) >>
               ELSE <<>>
        pass == AgingPass(spots_ \o add)
    IN  [spots |-> pass.spots, surface |-> pass.surface,
         removed |-> pass.removed, ingested |-> Len(add)]

\* one iteration of test.py's `while running` after its events
Tick_v1(pointer) ==
    /\ ~mouse_mode => pointer = <<0, 0>>
    /\ LET cp == IF mouse_mode THEN pointer
                 ELSE get_xy_position_v1(signal_time + 1)
           body == LoopBody_v1(spots, cp, next_id + 1, sliders)
       IN  /\ signal_time' = IF mouse_mode THEN signal_time ELSE signal_time + 1
           /\ current_pos' = cp
           /\ spots' = body.spots
           /\ next_id' = next_id + body.ingested
           /\ frame' = [kind |-> "tick", mode |-> mouse_mode, dt |-> 0,
                        pointer |-> pointer, interval0 |-> 0, polled |-> <<>>,
                        ingested |-> body.ingested, removed |-> body.removed,
                        surface |-> body.surface, core |-> cp]
    /\ ticks' = ticks + 1
    /\ UNCHANGED << mouse_mode, sliders, active_slider, dragging, rect_x,
                    polling_rate, polling_interval, time_since_last_poll,
                    poll_positions, raised, drags, probe >>

\* ticks of test.py with free inputs before it is left alone
FreeTicks_v1 == 2
\* ticks of test.py in one run
MaxTicks_v1 == 48
\* event.pos[0] - SLIDER_X of the MOUSEMOTION events offered to test.py
MotionOffsets_v1 == {-8, 100}

\* events and ticks in any order for FreeTicks_v1 ticks; then the program
\* runs on with the pointer at rest (mouse mode) or following the signal
Next_v1 ==
    \/ ticks < FreeTicks_v1 /\ KeySpace_v1
    \/ ticks < FreeTicks_v1
          /\ \E target \in Labels_v1 \cup {"elsewhere"} : MouseButtonDown_v1(target)
    \/ ticks < FreeTicks_v1 /\ MouseButtonUp_v1
    \/ ticks < FreeTicks_v1 /\ drags < MaxDrags
          /\ \E off \in MotionOffsets_v1 : MouseMotion_v1(SLIDER_X + off)
    \/ ticks < FreeTicks_v1
          /\ \E pointer \in Pointers \cup {<<0, 0>>} : Tick_v1(pointer)
    \/ ticks >= FreeTicks_v1 /\ ticks < MaxTicks_v1
          /\ Tick_v1(IF mouse_mode THEN current_pos ELSE <<0, 0>>)

Spec_v1 ==
    Init_v1 /\ [][Next_v1]_vars

(* ======================= properties ======================= *)
SpotIds(seq) ==
    {seq[i].id : i \in DOMAIN seq}

\* a mark's brightness multiplied once more by the mark's own decay factor
NextBrightness(m) ==
    MulDiv(m.brightness, m.decay_rate, SliderDen("Decay Rate"))

\* C1: a mark leaves the store in exactly the tick in which its brightness,
\* multiplied by its decay factor once per tick, first is <= 0.01: in every
\* step that changes the store, each mark that was in it either stays with
\* its brightness multiplied once and still above 0.01, or is removed having
\* been above 0.01 before and at or below 0.01 after this multiplication;
\* no mark in the store is at or below 0.01 when the tick ends.
C1_EvictedExactlyAtFloor ==
    [][spots' # spots =>
        /\ \A j \in DOMAIN spots' : spots'[j].brightness > FloorB
        /\ \A i \in DOMAIN spots :
              LET m == spots[i]
              IN  /\ m.brightness > FloorB
                  /\ (m.id \in SpotIds(spots')) <=> (NextBrightness(m) > FloorB)
                  /\ m.id \in SpotIds(spots') =>
                        \E j \in DOMAIN spots' :
                            /\ spots'[j].id = m.id
                            /\ spots'[j].brightness = NextBrightness(m)
                  /\ m.id \notin SpotIds(spots') =>
                        \E r \in DOMAIN frame'.removed :
                            /\ frame'.removed[r].id = m.id
                            /\ frame'.removed[r].brightness <= FloorB]_vars

\* a tick has removed marks that crossed the floor while others stay
C1_Witness ==
    /\ frame.removed # <<>>
    /\ spots # <<>>
    /\ \E i \in DOMAIN spots : spots[i].age > 1

\* C2: no mark whose brightness is <= 0.01 is drawn: every circle on the
\* surface of a tick was drawn with brightness above 0.01, and a mark
\* removed in a tick (it crossed the floor in that tick) is not on it.
C2_NeverDrawnAtFloor ==
    /\ \A k \in DOMAIN frame.surface : frame.surface[k].brightness > FloorB
    /\ \A r \in DOMAIN frame.removed :
          \A k \in DOMAIN frame.surface :
              frame.surface[k].id # frame.removed[r].id

\* a tick in which a mark crossed the floor and other marks were drawn
C2_Witness ==
    /\ \E r \in DOMAIN frame.removed : frame.removed[r].brightness <= FloorB
    /\ Len(frame.surface) >= 1

\* a step that executes a loop body (under Spec every tick is counted)
TickStep ==
    ticks' # ticks

\* C3: every tick of the main loop completes without raising an exception,
\* whichever mode is active, the very first tick included.
C3_NoTickRaises ==
    raised = "none"

\* C4: the core marker of a tick is drawn at the live position of that tick:
\* the pointer in a mouse-mode tick, the most recently polled signal position
\* in a signal-mode tick (stated for the ticks that reach the marker).
C4_CoreAtLivePosition ==
    (frame.kind = "tick" /\ frame.core # "none") =>
        IF frame.mode
        THEN frame.core = frame.pointer
        ELSE poll_positions # <<>> =>
                frame.core = poll_positions[Len(poll_positions)]

\* C5: a signal-mode tick with accumulator a, elapsed time T and interval
\* I = 1 / rate fires exactly floor((a + T) / I) polls and leaves the
\* accumulator at (a + T) - k * I, which lies in [0, I).
C5_PollCountIsFloor ==
    [][(TickStep /\ ~mouse_mode /\ raised' = "none") =>
        LET a == time_since_last_poll
            T == frame'.dt
            I == TimeDen \div sliders["Polling Rate"]
            k == Len(frame'.polled)
        IN  /\ k = (a + T) \div I
            /\ time_since_last_poll' = (a + T) - k * I
            /\ time_since_last_poll' >= 0
            /\ time_since_last_poll' < I]_vars

\* a signal-mode tick that fired several polls and emptied the accumulator
C5_Witness ==
    /\ raised = "none"
    /\ frame.kind = "tick"
    /\ ~frame.mode
    /\ Len(frame.polled) >= 3
    /\ time_since_last_poll = 0

\* C9: no input event removes a mark or changes a mark: a step that is not a
\* tick leaves the store as it is, and in a tick every mark that stays keeps
\* its position, base radius and decay factor and has its brightness
\* multiplied by the decay factor it was created with, whatever the sliders
\* and the mode have become since.
C9_EventsLeaveMarksAlone ==
    [][/\ ~TickStep => spots' = spots
       /\ \A i \in DOMAIN spots : \A j \in DOMAIN spots' :
             spots'[j].id = spots[i].id =>
                /\ spots'[j].pos = spots[i].pos
                /\ spots'[j].initial_radius = spots[i].initial_radius
                /\ spots'[j].decay_rate = spots[i].decay_rate
                /\ spots'[j].brightness \in
                      {spots[i].brightness, NextBrightness(spots[i])}
                /\ TickStep => spots'[j].brightness = NextBrightness(spots[i])]_vars

\* the store holds marks ingested before and after a move of the decay
\* slider, and the older ones have aged since, in the other mode
C9_Witness ==
    /\ \E i, j \in DOMAIN spots :
          /\ i < j
          /\ spots[i].decay_rate # spots[j].decay_rate
          /\ spots[i].decay_rate # sliders["Decay Rate"]
    /\ raised = "none"
    /\ frame.kind = "tick"
    /\ ~frame.mode

\* C10: the polling interval a tick uses, in its accumulator test and in
\* every firing, is 1 / (the polling rate the slider holds at that tick).
C10_IntervalFromCurrentRate ==
    [][(TickStep /\ raised' = "none") =>
        LET I == TimeDen \div sliders["Polling Rate"]
            k == Len(frame'.polled)
        IN  /\ polling_rate' = sliders["Polling Rate"]
            /\ polling_interval' = I
            /\ ~mouse_mode =>
                  /\ time_since_last_poll' < I
                  /\ time_since_last_poll' + k * I = time_since_last_poll + frame'.dt
                  /\ signal_time' = signal_time + k * I
                  /\ \A j \in 1..k : frame'.polled[j].t = signal_time + j * I]_vars

\* a signal-mode tick that fired polls with an interval other than the one
\* the previous tick used
C10_Witness ==
    /\ raised = "none"
    /\ frame.kind = "tick"
    /\ ~frame.mode
    /\ frame.interval0 # polling_interval
    /\ Len(frame.polled) >= 1

\* q = int(num / den) for den > 0: the whole part of num / den, toward zero
IsTrunc(q, num, den) ==
    IF num >= 0
    THEN q * den <= num /\ num < q * den + den
    ELSE q * den >= num /\ num > q * den - den

\* C6: interpolate_points(p1, p2, n) returns exactly n points, the i-th being
\* (trunc(p1.x + (p2.x - p1.x) i / n), trunc(p1.y + (p2.y - p1.y) i / n));
\* the last point is p2, and for n = 1 the result is the single point p2.
C6_InterpolateContract ==
    probe.fn = "interpolate_points" =>
        LET r == probe.result
            n == probe.steps
            a == probe.p1
            b == probe.p2
        IN  /\ DOMAIN r = 1..n
            /\ \A i \in 1..n :
                  /\ IsTrunc(r[i][1], a[1] * n + (b[1] - a[1]) * i, n)
                  /\ IsTrunc(r[i][2], a[2] * n + (b[2] - a[2]) * i, n)
            /\ r[n] = b
            /\ n = 1 => r = <<b>>

\* a call with several steps whose intermediate point has a negative,
\* fractional coordinate that was cut toward zero
C6_Witness ==
    /\ probe.fn = "interpolate_points"
    /\ probe.steps >= 2
    /\ \E i \in 1..probe.steps :
          LET num == probe.p1[1] * probe.steps + (probe.p2[1] - probe.p1[1]) * i
          IN  num < 0 /\ probe.result[i][1] * probe.steps > num

\* C7: generate_wave returns a value inside [offset - amplitude,
\* offset + amplitude] for every waveform kind.
C7_WaveWithinAmplitude ==
    probe.fn = "generate_wave" =>
        LET mid == probe.offset * (ValDen \div SliderDen("X Offset"))
            ext == probe.amp * WaveDen
        IN  mid - ext <= probe.result /\ probe.result <= mid + ext

\* u = extent // 2 + int((extent // 2) * v) for a channel value v
IsPixelOf(u, extent, v) ==
    LET h == extent \div 2
        av == IF v >= 0 THEN v ELSE -v
        whole == av \div ValDen
        rest == av % ValDen
        q == IF v >= 0 THEN u - h ELSE h - u
        m == q - h * whole
    IN  /\ m >= 0
        /\ m <= h
        /\ m * ValDen <= h * rest
        /\ h * rest < (m + 1) * ValDen

Clamped(u, extent) ==
    IF u < 0 THEN 0 ELSE IF u > extent THEN extent ELSE u

\* C8: get_xy_position returns x = clamp(floor(W/2) + trunc(floor(W/2) vx),
\* 0, W) and y likewise from H and vy; hence 0 <= x <= W and 0 <= y <= H,
\* and an 800-wide canvas with vx = 0.4 gives x = 560.
C8_PositionClampedToCanvas ==
    probe.fn = "get_xy_position" =>
        LET x == probe.result[1]
            y == probe.result[2]
            reach == (probe.w + probe.h) * 8
        IN  /\ \E u \in -reach..reach :
                  IsPixelOf(u, probe.w, probe.vx) /\ x = Clamped(u, probe.w)
            /\ \E u \in -reach..reach :
                  IsPixelOf(u, probe.h, probe.vy) /\ y = Clamped(u, probe.h)
            /\ 0 <= x /\ x <= probe.w
            /\ 0 <= y /\ y <= probe.h
            /\ (probe.w = 800 /\ 5 * probe.vx = 2 * ValDen) => x = 560

\* the 800-wide canvas with vx = 0.4, and a y value clipped at the lower edge
C8_Witness ==
    /\ probe.fn = "get_xy_position"
    /\ probe.w = 800
    /\ 5 * probe.vx = 2 * ValDen
    /\ probe.result[1] = 560
    /\ probe.h > 0
    /\ probe.vy > ValDen
    /\ probe.result[2] = probe.h

\* the marks of seq created after the mark with identity last_id
Fresh(seq, last_id) ==
    SelectSeq(seq, LAMBDA m : m.id > last_id)

\* the positions of the polls of a tick, in firing order
PolledPositions(polled) ==
    [j \in 1..Len(polled) |-> polled[j].pos]

\* C11: simulated time never decreases and changes only in a signal-mode
\* tick that fires polls; a tick with k firings advances it by k intervals,
\* the j-th polled position being the signal sampled at t0 + j * I; and the
\* marks the tick ingests are, in store order, the interpolated points of
\* the consecutive pairs of (carried position, 1st, ..., k-th polled
\* position), taken in that increasing simulated-time order.
C11_SimTimeMonotoneInOrder ==
    [][/\ signal_time' >= signal_time
       /\ signal_time' # signal_time =>
             (TickStep /\ ~mouse_mode /\ Len(frame'.polled) >= 1)
       /\ (TickStep /\ ~mouse_mode /\ raised' = "none") =>
             LET I == TimeDen \div sliders["Polling Rate"]
                 k == Len(frame'.polled)
                 n == SPOTS_PER_FRAME
                 pp == poll_positions \o PolledPositions(frame'.polled)
                 fresh == Fresh(spots', next_id)
             IN  /\ signal_time' = signal_time + k * I
                 /\ \A j \in 1..k :
                       /\ frame'.polled[j].t = signal_time + j * I
                       /\ frame'.polled[j].pos =
                             get_xy_position(Controls(XLabels, sliders),
                                             Controls(YLabels, sliders),
                                             CanvasWidth, SCREEN_HEIGHT,
                                             signal_time + j * I)
                 /\ Len(fresh) = Max2(Len(pp) - 1, 0) * n
                 /\ \A j \in 1..Len(fresh) :
                       /\ fresh[j].id = next_id + j
                       /\ fresh[j].pos =
                             interpolate_points(pp[((j - 1) \div n) + 1],
                                                pp[((j - 1) \div n) + 2],
                                                n)[((j - 1) % n) + 1]]_vars

\* a signal-mode tick that fired several polls at different positions after
\* a position was carried over, and ingested the marks of every pair
C11_Witness ==
    /\ raised = "none"
    /\ frame.kind = "tick"
    /\ ~frame.mode
    /\ Len(frame.polled) >= 2
    /\ frame.polled[1].pos # frame.polled[2].pos
    /\ frame.polled[1].t < frame.polled[2].t
    /\ frame.ingested = Len(frame.polled) * SPOTS_PER_FRAME

\* C12: a mark ingested with decay factor 0.9 is in the store at the end of
\* each of its first 43 ticks (the tick that ingests it being the first, so
\* its age is 1 when that tick ends) and is removed in its 44th tick, at
\* age 44.
C12_EvictedIn44thTick ==
    [][TickStep =>
        /\ \A j \in DOMAIN spots' :
              spots'[j].id > next_id => spots'[j].age = 1
        /\ \A i \in DOMAIN spots :
              spots[i].decay_rate = INITIAL_DECAY =>
                 /\ spots[i].age <= 43
                 /\ spots[i].age < 43 =>
                       \E j \in DOMAIN spots' :
                           /\ spots'[j].id = spots[i].id
                           /\ spots'[j].age = spots[i].age + 1
                 /\ spots[i].age = 43 =>
                       /\ spots[i].id \notin SpotIds(spots')
                       /\ \E r \in DOMAIN frame'.removed :
                             /\ frame'.removed[r].id = spots[i].id
                             /\ frame'.removed[r].age = 44]_vars

\* a tick has just removed a mark of decay factor 0.9 at age 44 while a
\* younger mark of the same factor stays
C12_Witness ==
    /\ \E r \in DOMAIN frame.removed :
          /\ frame.removed[r].decay_rate = INITIAL_DECAY
          /\ frame.removed[r].age = 44
    /\ \E i \in DOMAIN spots :
          spots[i].decay_rate = INITIAL_DECAY /\ spots[i].age = 43

\* C13: the polling rate is at least 1 in every reachable state: the value
\* the polling-rate slider holds, and the rate each tick reads from it, so
\* 1 / polling_rate never divides by zero.
C13_PollRatePositive ==
    /\ sliders["Polling Rate"] >= 1
    /\ polling_rate >= 1
    /\ polling_interval > 0
    /\ raised # "ZeroDivisionError"

\* the polling-rate slider stands at its lowest value, away from its preset,
\* and a tick has read it from there
C13_Witness ==
    /\ sliders["Polling Rate"] = POLL_RATE_MIN
    /\ sliders["Polling Rate"] # PRESET_VALUES("Polling Rate")
    /\ polling_rate = POLL_RATE_MIN
    /\ frame.kind = "tick"
    /\ raised = "none"

\* the mark of seq with identity id
MarkOf(seq, id) ==
    seq[CHOOSE k \in DOMAIN seq : seq[k].id = id]

\* C14: the aging pass of a tick updates every mark that is in the store
\* when the pass starts exactly once, the marks ingested in the same tick
\* included: each of them ends the tick either in the store or among the
\* removed, never in both and never twice, one tick older and with its
\* brightness multiplied once by its own decay factor; those removed are
\* exactly those whose brightness has come to 0.01 or below; and the marks
\* that stay keep their order.
C14_AgedExactlyOnce ==
    [][spots' # spots =>
        LET before == SpotIds(spots)
            new == (next_id + 1)..next_id'
            kept == SpotIds(spots')
            gone == SpotIds(frame'.removed)
            After(id) == IF id \in kept THEN MarkOf(spots', id)
                         ELSE MarkOf(frame'.removed, id)
        IN  /\ kept \cup gone = before \cup new
            /\ kept \cap gone = {}
            /\ Cardinality(kept) = Len(spots')
            /\ Cardinality(gone) = Len(frame'.removed)
            /\ \A i \in DOMAIN spots :
                  LET m == spots[i]
                  IN  /\ After(m.id).age = m.age + 1
                      /\ After(m.id).brightness = NextBrightness(m)
            /\ \A id \in new :
                  /\ After(id).age = 1
                  /\ After(id).brightness =
                        MulDiv(INITIAL_BRIGHTNESS, After(id).decay_rate,
                               SliderDen("Decay Rate"))
            /\ \A id \in kept \cup gone :
                  id \in gone <=> After(id).brightness <= FloorB
            /\ \A i, j \in DOMAIN spots' :
                  i < j => spots'[i].id < spots'[j].id]_vars

\* a tick whose aging pass removed a mark, kept an older and a younger one,
\* and aged a mark ingested in that same tick
C14_Witness ==
    /\ frame.kind = "tick"
    /\ frame.ingested >= 1
    /\ \E r \in DOMAIN frame.removed : \E i, j \in DOMAIN spots :
          /\ spots[i].id < frame.removed[r].id
          /\ frame.removed[r].id < spots[j].id
    /\ spots[Len(spots)].age = 1

\* C15: an interpolation done in a mouse-mode tick runs from the pointer
\* position of the previous mouse-mode tick to the pointer position of this
\* tick: the marks the tick ingests before the mark at the pointer are the
\* points interpolate_points returns for that pair, whatever modes the
\* ticks in between had.
C15_InterpolatesBetweenPointers ==
    [][(TickStep /\ mouse_mode /\ raised' = "none" /\ frame'.ingested > 1) =>
        /\ current_pos # "unbound"
        /\ \A j \in 1..SPOTS_PER_FRAME :
              Fresh(spots', next_id)[j].pos =
                 interpolate_points(current_pos, frame'.pointer,
                                    SPOTS_PER_FRAME)[j]]_vars

\* the most recently ingested mark of a non-empty store
Newest(seq) ==
    MarkOf(seq, CHOOSE id \in SpotIds(seq) : \A other \in SpotIds(seq) : other <= id)

\* C16: a mouse-mode tick ingests n + 1 marks (the n interpolated points from
\* the newest live mark's position to the pointer, then the pointer) when the
\* store is non-empty and that position differs from the pointer, and 1 mark
\* otherwise, also when a mark already lies at the pointer; the marks go to
\* the end of the store, each created with brightness 1.0 (so decay_rate
\* after the aging pass of the tick) and the size and decay values the
\* sliders hold at that tick, the last of them at the pointer.
C16_MouseTickIngest ==
    [][(TickStep /\ mouse_mode /\ raised' = "none") =>
        LET n == SPOTS_PER_FRAME
            fresh == Fresh(spots', next_id)
            moved == spots # <<>> /\ Newest(spots).pos # frame'.pointer
            count == IF moved THEN n + 1 ELSE 1
        IN  /\ Len(fresh) = count
            /\ frame'.ingested = count
            /\ next_id' = next_id + count
            /\ Len(spots') >= count
            /\ \A j \in 1..count :
                  /\ spots'[Len(spots') - count + j] = fresh[j]
                  /\ fresh[j].id = next_id + j
                  /\ fresh[j].age = 1
                  /\ fresh[j].brightness =
                        MulDiv(INITIAL_BRIGHTNESS, sliders["Decay Rate"],
                               SliderDen("Decay Rate"))
                  /\ fresh[j].initial_radius = sliders["Dot Size"]
                  /\ fresh[j].decay_rate = sliders["Decay Rate"]
            /\ fresh[count].pos = frame'.pointer
            /\ moved =>
                  \A j \in 1..n :
                      fresh[j].pos =
                         interpolate_points(Newest(spots).pos, frame'.pointer, n)[j]]_vars

\* a mouse-mode tick has ingested n + 1 marks behind two marks that earlier
\* ticks put at one and the same pointer position
C16_Witness ==
    /\ raised = "none"
    /\ frame.kind = "tick"
    /\ frame.mode
    /\ frame.ingested = SPOTS_PER_FRAME + 1
    /\ Len(spots) >= 2
    /\ spots[1].pos = spots[2].pos
    /\ spots[1].age = spots[2].age + 1

\* C17: a signal-mode tick in which k polls fire ingests k * n marks when a
\* polled position is carried over from an earlier tick (the n interpolated
\* points of each consecutive pair, the first pair starting at the carried
\* position) and max(k - 1, 0) * n marks when none is carried (nothing is
\* ingested for the first polled position itself); afterwards the carried
\* position is the last position polled in this tick if k > 0 and is
\* unchanged if k = 0. At most one position is ever carried.
C17_SignalTickIngest ==
    [][(TickStep /\ ~mouse_mode /\ raised' = "none") =>
        LET n == SPOTS_PER_FRAME
            k == Len(frame'.polled)
            polled == PolledPositions(frame'.polled)
            fresh == Fresh(spots', next_id)
            chain == poll_positions \o polled
        IN  /\ Len(poll_positions) <= 1
            /\ Len(fresh) = IF poll_positions # <<>> THEN k * n
                            ELSE Max2(k - 1, 0) * n
            /\ frame'.ingested = Len(fresh)
            /\ \A j \in 1..Len(fresh) :
                  fresh[j].pos =
                     interpolate_points(chain[((j - 1) \div n) + 1],
                                        chain[((j - 1) \div n) + 2],
                                        n)[((j - 1) % n) + 1]
            /\ poll_positions' = IF k > 0 THEN <<polled[k]>>
                                 ELSE poll_positions]_vars

\* a signal-mode tick that started with a carried position, fired several
\* polls and ingested n marks for each of them
C17_Witness ==
    /\ raised = "none"
    /\ frame.kind = "tick"
    /\ ~frame.mode
    /\ Len(frame.polled) >= 2
    /\ frame.ingested = Len(frame.polled) * SPOTS_PER_FRAME
    /\ poll_positions = <<frame.polled[Len(frame.polled)].pos>>

\* brightness b multiplied by the decay factor d once, and ten times
Decayed(b, d) ==
    MulDiv(b, d, SliderDen("Decay Rate"))

Decayed10(b, d) ==
    Decayed(Decayed(Decayed(Decayed(Decayed(
    Decayed(Decayed(Decayed(Decayed(Decayed(b, d), d), d), d), d),
    d), d), d), d), d)

RECURSIVE DecayedBy(_, _, _)
DecayedBy(b, d, times) ==
    IF times = 0 THEN b
    ELSE IF times >= 10 THEN DecayedBy(Decayed10(b, d), d, times - 10)
    ELSE DecayedBy(Decayed(b, d), d, times - 1)

\* decay factor d to the power age, as the float product 1.0 * d * ... * d
DecayPow(d, age) ==
    DecayedBy(INITIAL_BRIGHTNESS, d, age)

\* C18: when a tick ends, every mark in the store has age >= 1, a decay
\* factor strictly between 0 and 1, brightness decay_factor ^ age, and
\* 0.01 < brightness < 1; a mark that was in the store before the tick is
\* strictly dimmer than it was and has the position, base radius and decay
\* factor it had, and a mark new in the store has the base radius and decay
\* factor the sliders held when it was created.
C18_BrightnessIsDecayPowerOfAge ==
    [][spots' # spots =>
        /\ \A t \in { << spots'[j].decay_rate, spots'[j].age, spots'[j].brightness >> :
                          j \in DOMAIN spots' } :
              /\ t[1] > 0 /\ t[1] < SliderDen("Decay Rate")
              /\ t[2] >= 1
              /\ t[3] = DecayPow(t[1], t[2])
              /\ t[3] > FloorB /\ t[3] < INITIAL_BRIGHTNESS
        /\ \A j \in DOMAIN spots' :
              IF spots'[j].id \in SpotIds(spots)
              THEN LET m == MarkOf(spots, spots'[j].id)
                   IN  /\ spots'[j].brightness < m.brightness
                       /\ spots'[j].pos = m.pos
                       /\ spots'[j].initial_radius = m.initial_radius
                       /\ spots'[j].decay_rate = m.decay_rate
              ELSE /\ spots'[j].initial_radius = sliders["Dot Size"]
                   /\ spots'[j].decay_rate = sliders["Decay Rate"]]_vars

\* the store holds a mark that has aged more than twenty times next to a
\* mark of another decay factor and a mark ingested in the last tick
C18_Witness ==
    /\ spots # <<>>
    /\ spots[Len(spots)].age = 1
    /\ \E i \in DOMAIN spots :
          /\ spots[i].age > 20
          /\ spots[i].decay_rate # spots[Len(spots)].decay_rate

C20_SchedulerTimeConserved ==
    [][/\ time_since_last_poll' >= 0
       /\ IF /\ ticks' = ticks + 1
             /\ ~mouse_mode
             /\ raised' \in {"none", "UnboundLocalError"}
          THEN LET n == Len(frame'.polled)
               IN  /\ signal_time' = signal_time + n * polling_interval'
                   /\ time_since_last_poll' =
                          time_since_last_poll + frame'.dt - n * polling_interval'
                   /\ signal_time' + time_since_last_poll' =
                          signal_time + time_since_last_poll + frame'.dt
          ELSE signal_time' + time_since_last_poll' =
                  signal_time + time_since_last_poll]_vars

\* a signal-mode tick after a stay in mouse mode and a polling-rate change
\* has fired polls at the new interval and left a remainder in the
\* accumulator
C20_Witness ==
    /\ frame.kind = "tick"
    /\ ~frame.mode
    /\ raised = "none"
    /\ Len(frame.polled) >= 1
    /\ time_since_last_poll > 0
    /\ polling_interval # frame.interval0
    /\ signal_time = Len(frame.polled) * polling_interval

\* C21: a tick executed in mouse mode leaves simulated time, the accumulator
\* and the carried poll position as they were, whatever its dt; so the polls
\* of a signal-mode tick are counted from the accumulator and that tick's own
\* dt alone.
C21_MouseTickKeepsScheduler ==
    [][/\ (mouse_mode /\ ticks' = ticks + 1)
            => /\ signal_time' = signal_time
               /\ time_since_last_poll' = time_since_last_poll
               /\ poll_positions' = poll_positions
       /\ (~mouse_mode /\ ticks' = ticks + 1
              /\ raised' \in {"none", "UnboundLocalError"})
            => Len(frame'.polled) =
                  (time_since_last_poll + frame'.dt) \div polling_interval']_vars

\* a mouse-mode tick with dt > 0 has run after a signal-mode tick that polled
C21_Witness ==
    /\ frame.kind = "tick"
    /\ frame.mode
    /\ mouse_mode
    /\ frame.dt > 0
    /\ raised = "none"
    /\ signal_time > 0
    /\ poll_positions # <<>>

\* C22: whatever drags of the wave-kind sliders and Reset presses occur, the
\* value get_wave_type passes to WaveType is 0, 1, 2 or 3 on both channels,
\* so no tick raises ValueError and generate_wave finds a branch for it.
C22_WaveIndexValid ==
    /\ \A l \in WaveTargets : sliders[l] \in {SINE, SQUARE, SAWTOOTH, TRIANGLE}
    /\ WaveTypeOk(Controls(XLabels, sliders))
    /\ WaveTypeOk(Controls(YLabels, sliders))
    /\ raised # "ValueError"

\* a signal-mode tick has polled with the X wave slider dragged to its
\* largest value and the Y wave slider to another kind
C22_Witness ==
    /\ frame.kind = "tick"
    /\ ~frame.mode
    /\ frame.polled # <<>>
    /\ raised = "none"
    /\ sliders["X Wave"] = TRIANGLE
    /\ sliders["Y Wave"] = SQUARE

====
